---------------------------- MODULE Spec2Model ----------------------------
(***************************************************************************)
(* arrayify (src/arrayify.cpp): main() validates the command line, then    *)
(* parse() turns the bytes of the input file into a C string literal,      *)
(* written line by line to the output file.                                *)
(*                                                                         *)
(* Characters and bytes are their codes, 0..255.  The line buffer is the   *)
(* sequence of characters between pOutputBuffer and pOut, so that          *)
(* pOut - pOutputBuffer is its length.  The output file is the sequence of *)
(* characters written so far; an output stream opened in text mode stores  *)
(* a newline character in one byte ("LF") or, where the C library          *)
(* translates it to CR LF, in two ("CRLF"): fseek() counts bytes.          *)
(***************************************************************************)
EXTENDS Integers, Sequences, FiniteSets, TLC

VARIABLES
    pc,             \* position of the program
    argv,           \* the command line: [name, l, b]
    inputFile,      \* the bytes fread() delivers from the input file
    filePos,        \* number of bytes of inputFile already read
    chunks,         \* number of chunks fread() delivered so far
    \* main()
    success, retValue, x, lineLength, bare, pVariableName,
    \* the output stream
    pOutputFile,    \* "NULL", or the newline translation of the stream
    outputFile,     \* the characters of the output file
    \* parse()
    inputBuffer, bytesRead, pIn, linesWritten, writeLine, addEscaped,
    pOutputBuffer,  \* "NULL" or "PTR"
    outputLine,     \* the characters in [pOutputBuffer, pOut)
    pPrefix,        \* "NULL" or "PTR"
    heap,           \* what malloc() and free() did to the two buffers
    written         \* the lines the flush paths passed to fwrite()

vars == <<pc, argv, inputFile, filePos, chunks, success, retValue, x,
          lineLength, bare, pVariableName, pOutputFile, outputFile,
          inputBuffer, bytesRead, pIn, linesWritten, writeLine, addEscaped,
          pOutputBuffer, outputLine, pPrefix, heap, written>>

mainVars == <<success, retValue, x, lineLength, bare, pVariableName, pOutputFile>>
envVars == <<argv, inputFile>>

-----------------------------------------------------------------------------
(* Bounds of the model *)

MaxInputLen == 3        \* longest input over Alphabet
MaxNameLen == 1         \* longest symbol name
MaxLineLength == 23     \* largest -l value tried besides the default

(* Program constants *)

LINE_LENGTH == 80
PREFIX_LENGTH == 16
POSTFIX_LENGTH == 2
ENDFIX_LENGTH == 18
SizeofInputBuffer == 120

POSTFIX == <<34, 10>>
ENDFIX == <<59, 10, 10, 47, 47, 32, 69, 110, 100, 32, 111, 102, 32, 102, 105, 108, 101, 10>>
BareEndfix == <<59, 10>>

(* The names in the header comment: "in.txt" and "arrayify". *)
pInputFileName == <<105, 110, 46, 116, 120, 116>>
pExeName == <<97, 114, 114, 97, 121, 105, 102, 121>>

HeaderText ==
    <<47, 42, 32, 84, 104, 105, 115, 32, 102, 105, 108, 101, 32, 119, 97, 115,
      32, 99, 114, 101, 97, 116, 101, 100, 32, 102, 114, 111, 109, 32, 105,
      110, 112, 117, 116, 32, 102, 105, 108, 101, 32>>
    \o pInputFileName \o <<32, 98, 121, 32>> \o pExeName \o <<32, 42, 47, 10, 10>>

(* sprintf(pPrefix, "const char %s[] = ", pName) *)
PrefixText(name) ==
    <<99, 111, 110, 115, 116, 32, 99, 104, 97, 114, 32>> \o name \o <<91, 93, 32, 61, 32>>

-----------------------------------------------------------------------------
(* The inputs tried *)

Byte == 0..255
Alphabet == {10, 92, 110}           \* newline, backslash, 'n'
NewlineWidths == {"LF", "CRLF"}
ChunkSizes == {1, 7, SizeofInputBuffer}

RECURSIVE SeqsUpTo(_, _)
SeqsUpTo(S, n) ==
    IF n = 0 THEN {<<>>}
    ELSE LET shorter == SeqsUpTo(S, n - 1)
         IN shorter \cup {Append(s, e) : s \in {t \in shorter : Len(t) = n - 1}, e \in S}

(* names of 'x' characters *)
Names == {[i \in 1..n |-> 120] : n \in 1..MaxNameLen}
Requests == {-1, LINE_LENGTH} \cup (PREFIX_LENGTH + 5 .. MaxLineLength)

(* A longer input, which a read of 7 bytes splits. *)
LongInput == <<65, 10, 110, 92, 65, 65, 65, 10, 65>>

(* The three bytes 'A', newline, 'B' *)
ExampleInput == <<65, 10, 66>>

-----------------------------------------------------------------------------
(* escapeRequired() and escapedChar() *)

(* escapeRequired() without its case 0x5c *)
escapeRequiredNoBackslash(character) ==
    character \in {7, 8, 27, 12, 10, 13, 9, 11, 39, 34, 63}

escapeRequired(character) ==
    character \in {7, 8, 27, 12, 10, 13, 9, 11, 92, 39, 34, 63}

(* escapedChar() without its case 0x1b *)
escapedCharNoEscape(character) ==
    CASE character = 7 -> 97
      [] character = 8 -> 98
      [] character = 12 -> 102
      [] character = 10 -> 110
      [] character = 13 -> 114
      [] character = 9 -> 116
      [] character = 11 -> 118
      [] character = 92 -> 92
      [] character = 39 -> 39
      [] character = 34 -> 34
      [] character = 63 -> 63
      [] OTHER -> character

escapedChar(character) ==
    CASE character = 7 -> 97
      [] character = 8 -> 98
      [] character = 27 -> 101
      [] character = 12 -> 102
      [] character = 10 -> 110
      [] character = 13 -> 114
      [] character = 9 -> 116
      [] character = 11 -> 118
      [] character = 92 -> 92
      [] character = 39 -> 39
      [] character = 34 -> 34
      [] character = 63 -> 63
      [] OTHER -> character

-----------------------------------------------------------------------------
(* The heap *)

NoHeap == [requested |-> FALSE, outAlloc |-> FALSE, preAlloc |-> FALSE,
           outFrees |-> 0, preFrees |-> 0, staleRead |-> FALSE]

(* free(pPrefix): nothing for a null pointer *)
FreePrefix(h, p) == IF p = "NULL" THEN h ELSE [h EXCEPT !.preFrees = @ + 1]

(* free(pOutputBuffer) *)
FreeOutputBuffer(h, p) == IF p = "NULL" THEN h ELSE [h EXCEPT !.outFrees = @ + 1]

(* *(pPrefix + i): a read of the prefix buffer *)
ReadPrefix(h) == IF h.preFrees > 0 THEN [h EXCEPT !.staleRead = TRUE] ELSE h

-----------------------------------------------------------------------------
(* The output stream.  fwrite() is taken to succeed: the sink accepts every *)
(* write.                                                                   *)

ByteWidth(c, mode) == IF c = 10 /\ mode = "CRLF" THEN 2 ELSE 1

(* the length in bytes of the characters s in the file: each character *)
(* has width 1, and a newline has width 2 where it is stored as CR LF   *)
ByteLength(s, mode) ==
    Len(s) + Cardinality({i \in 1..Len(s) : ByteWidth(s[i], mode) = 2})

(* The character position back bytes before position k *)
RECURSIVE StepBack(_, _, _, _)
StepBack(file, mode, k, back) ==
    IF back <= 0 \/ k = 0 THEN k
    ELSE StepBack(file, mode, k - 1, back - ByteWidth(file[k], mode))

(* fseek(pOutputFile, -back, SEEK_CUR) with the stream at its end: the      *)
(* position reached, in characters.  The call fails, and the position stays *)
(* at the end, when the file holds fewer than back bytes.                   *)
SeekBack(file, mode, back) ==
    IF ByteLength(file, mode) < back THEN Len(file)
    ELSE StepBack(file, mode, Len(file), back)

(* fwrite(data) at position pos *)
WriteAt(file, pos, data) ==
    SubSeq(file, 1, pos) \o data \o SubSeq(file, pos + Len(data) + 1, Len(file))

-----------------------------------------------------------------------------
(* parse(): the body of the inner while loop, on the locals it changes *)

Frame ==
    [outputLine |-> outputLine, pIn |-> pIn, addEscaped |-> addEscaped,
     writeLine |-> writeLine, pPrefix |-> pPrefix, linesWritten |-> linesWritten,
     outputFile |-> outputFile, written |-> written, heap |-> heap]

prefixLength == PREFIX_LENGTH + Len(pVariableName)

(* lines 179-185 without the test of pPrefix: the prefix on every line *)
CopyPrefixAlways(f) ==
    [f EXCEPT !.outputLine = Append(@, PrefixText(pVariableName)[Len(@) + 1]),
              !.heap = ReadPrefix(@)]

(* lines 179-185 with the input pointer moved on *)
CopyPrefixConsuming(f) ==
    IF f.pPrefix # "NULL"
    THEN [f EXCEPT !.outputLine = Append(@, PrefixText(pVariableName)[Len(@) + 1]),
                   !.heap = ReadPrefix(@),
                   !.pIn = @ + 1]
    ELSE [f EXCEPT !.outputLine = Append(@, 32), !.pIn = @ + 1]

(* lines 179-185: one character of the prefix region *)
CopyPrefix(f) ==
    IF f.pPrefix # "NULL"
    THEN [f EXCEPT !.outputLine = Append(@, PrefixText(pVariableName)[Len(@) + 1]),
                   !.heap = ReadPrefix(@)]
    ELSE [f EXCEPT !.outputLine = Append(@, 32)]

(* lines 188-192: the starting quote *)
OpenQuote(f) ==
    [f EXCEPT !.heap = FreePrefix(@, f.pPrefix),
              !.pPrefix = "NULL",
              !.outputLine = Append(@, 34)]

(* lines 194-197 with the input pointer moved on already *)
AddBackslashConsuming(f) ==
    [f EXCEPT !.outputLine = Append(@, 92), !.addEscaped = @ - 1, !.pIn = @ + 1]

(* lines 194-197 *)
AddBackslash(f) ==
    [f EXCEPT !.outputLine = Append(@, 92), !.addEscaped = @ - 1]

(* lines 198-202 *)
AddEscapedChar(f, c) ==
    [f EXCEPT !.outputLine = Append(@, escapedChar(c)),
              !.pIn = @ + 1,
              !.addEscaped = @ - 1]

(* line 211 with room for one character only *)
TooCloseLate(f) == Len(f.outputLine) > lineLength - POSTFIX_LENGTH - 1

(* line 211 asking for room for two more characters *)
TooCloseEarly(f) == Len(f.outputLine) > lineLength - POSTFIX_LENGTH - 4

(* line 211: too close to the end of the line for an escaped character *)
TooClose(f) == Len(f.outputLine) > lineLength - POSTFIX_LENGTH - 2

(* lines 206-218 *)
ActualChar(f, c) ==
    IF escapeRequired(c)
    THEN [f EXCEPT !.addEscaped = 2,
                   !.writeLine = IF TooClose(f) THEN TRUE ELSE @]
    ELSE [f EXCEPT !.outputLine = Append(@, c), !.pIn = @ + 1]

(* line 221 without the room for the postfix *)
LineFullNoPostfix(f) == Len(f.outputLine) >= lineLength

(* line 221 *)
LineFull(f) == Len(f.outputLine) >= lineLength - POSTFIX_LENGTH

(* lines 223-227 and 235-239: add the postfix and write the line *)
PutLine(f, final) ==
    LET line == f.outputLine \o POSTFIX
    IN [f EXCEPT !.outputLine = line,
                 !.outputFile = @ \o line,
                 !.linesWritten = @ + 1,
                 !.written = Append(@, [text |-> line, forced |-> f.writeLine,
                                        final |-> final])]

(* lines 221-230 without pOut set back to pOutputBuffer *)
FlushIfDueNoRewind(f) ==
    IF LineFull(f) \/ f.writeLine
    THEN [PutLine(f, FALSE) EXCEPT !.writeLine = FALSE]
    ELSE f

(* lines 221-230 *)
FlushIfDue(f) ==
    IF LineFull(f) \/ f.writeLine
    THEN [PutLine(f, FALSE) EXCEPT !.outputLine = <<>>, !.writeLine = FALSE]
    ELSE f

(* lines 175-231: one pass of the inner loop, with c = *pIn *)
LoopBody(f, c) ==
    FlushIfDue(
        IF Len(f.outputLine) < prefixLength THEN CopyPrefix(f)
        ELSE IF Len(f.outputLine) = prefixLength THEN OpenQuote(f)
        ELSE IF f.addEscaped = 2 THEN AddBackslash(f)
        ELSE IF f.addEscaped = 1 THEN AddEscapedChar(f, c)
        ELSE ActualChar(f, c))

(* lines 233-240 *)
LastLine(f) == IF Len(f.outputLine) > 0 THEN PutLine(f, TRUE) ELSE f

(* lines 241-248 *)
EndfixFor(b) == IF b THEN BareEndfix ELSE SubSeq(ENDFIX, 1, ENDFIX_LENGTH)

(* lines 241-248, counting the endfix as a line *)
FixUpCounted(f) ==
    [f EXCEPT !.outputFile =
                  WriteAt(@, SeekBack(@, pOutputFile, POSTFIX_LENGTH), EndfixFor(bare)),
              !.linesWritten = @ + 1]

FixUp(f) ==
    [f EXCEPT !.outputFile =
        WriteAt(@, SeekBack(@, pOutputFile, POSTFIX_LENGTH), EndfixFor(bare))]

(* lines 249-251 *)
TidyUp(f) ==
    [f EXCEPT !.heap = FreeOutputBuffer(FreePrefix(@, f.pPrefix), pOutputBuffer)]

-----------------------------------------------------------------------------
(* main() *)

(* lineLength < PREFIX_LENGTH + strlen(pVariableName) + 5: the int is       *)
(* converted to size_t, which makes a negative value larger than any length *)
UnsignedLess(i, n) == IF i < 0 THEN FALSE ELSE i < n

(* line 353 without its test for a negative length *)
TooShortUnsigned(l, name) == UnsignedLess(l, PREFIX_LENGTH + Len(name) + 5)

(* line 353 *)
TooShort(l, name) == (l < 0) \/ UnsignedLess(l, PREFIX_LENGTH + Len(name) + 5)

(* lines 353-356 with a minimum two characters short *)
CheckedLineLengthShort(l, name) ==
    IF TooShort(l, name) THEN PREFIX_LENGTH + Len(name) + 3 ELSE l

(* lines 353-356 *)
CheckedLineLength(l, name) ==
    IF TooShort(l, name) THEN PREFIX_LENGTH + Len(name) + 5 ELSE l

MainOutcomes ==
    {"ok", "no_input_argument", "input_not_opened", "no_memory_for_name",
     "output_not_opened"}

Init ==
    /\ pc = "main"
    /\ \/ /\ inputFile \in SeqsUpTo(Alphabet, MaxInputLen) \cup {LongInput}
          /\ argv \in [name : Names, l : Requests, b : BOOLEAN]
       \/ /\ inputFile \in {<<c>> : c \in Byte} \cup {ExampleInput}
          /\ argv \in [name : {<<120>>}, l : {LINE_LENGTH}, b : BOOLEAN]
    /\ filePos = 0
    /\ chunks = 0
    /\ success = FALSE
    /\ retValue = -1
    /\ x = 0
    /\ lineLength = LINE_LENGTH
    /\ bare = FALSE
    /\ pVariableName = <<>>
    /\ pOutputFile = "NULL"
    /\ outputFile = <<>>
    /\ inputBuffer = <<>>
    /\ bytesRead = 0
    /\ pIn = 0
    /\ linesWritten = 0
    /\ writeLine = FALSE
    /\ addEscaped = 0
    /\ pOutputBuffer = "NULL"
    /\ outputLine = <<>>
    /\ pPrefix = "NULL"
    /\ heap = NoHeap
    /\ written = <<>>

parseVars == <<inputBuffer, bytesRead, pIn, linesWritten, writeLine, addEscaped,
               pOutputBuffer, outputLine, pPrefix, heap, written>>

(* lines 258-383: the command line, the files, the names, the line length *)
Main ==
    /\ pc = "main"
    /\ \E outcome \in MainOutcomes, mode \in NewlineWidths :
          /\ success' = (outcome = "ok")
          /\ IF outcome = "no_input_argument"
             THEN /\ UNCHANGED <<lineLength, bare, pVariableName>>
             ELSE /\ bare' = argv.b
                  /\ pVariableName' = argv.name
                  /\ lineLength' = IF outcome \in {"input_not_opened", "no_memory_for_name"}
                                   THEN argv.l
                                   ELSE CheckedLineLength(argv.l, argv.name)
          /\ pOutputFile' = IF outcome = "ok" THEN mode ELSE "NULL"
          /\ pc' = IF outcome = "ok" THEN "parse" ELSE "exit"
    /\ UNCHANGED <<envVars, filePos, chunks, retValue, x, outputFile, parseVars>>

(* lines 387-388: parse() returns to main() *)
Return ==
    /\ pc = "return"
    /\ x' = linesWritten
    /\ pc' = "exit"
    /\ UNCHANGED <<envVars, filePos, chunks, success, retValue, lineLength, bare,
                   pVariableName, pOutputFile, outputFile, parseVars>>

(* lines 396-414 *)
Exit ==
    /\ pc = "exit"
    /\ retValue' = IF success THEN 0 ELSE retValue
    /\ pc' = "done"
    /\ UNCHANGED <<envVars, filePos, chunks, success, x, lineLength, bare,
                   pVariableName, pOutputFile, outputFile, parseVars>>

-----------------------------------------------------------------------------
(* parse() *)

(* lines 153-164: the two buffers; either malloc() may return NULL *)
Allocate ==
    /\ pc = "parse"
    /\ \E gotOut \in BOOLEAN, gotPrefix \in BOOLEAN :
          /\ pOutputBuffer' = IF gotOut THEN "PTR" ELSE "NULL"
          /\ pPrefix' = IF gotPrefix THEN "PTR" ELSE "NULL"
          /\ heap' = [NoHeap EXCEPT !.requested = TRUE, !.outAlloc = gotOut,
                                  !.preAlloc = gotPrefix]
          /\ pc' = IF gotOut /\ gotPrefix THEN "header" ELSE "return"
    /\ linesWritten' = 0
    /\ writeLine' = FALSE
    /\ addEscaped' = 0
    /\ outputLine' = <<>>
    /\ UNCHANGED <<envVars, filePos, chunks, mainVars, outputFile, inputBuffer,
                   bytesRead, pIn, written>>

(* lines 165-170 without the test of bare *)
HeaderAlways ==
    /\ pc = "header"
    /\ outputFile' = outputFile \o HeaderText
    /\ pc' = "read"
    /\ UNCHANGED <<envVars, filePos, chunks, mainVars, parseVars>>

(* lines 165-170: the header comment, unless bare *)
Header ==
    /\ pc = "header"
    /\ outputFile' = IF bare THEN outputFile ELSE outputFile \o HeaderText
    /\ pc' = "read"
    /\ UNCHANGED <<envVars, filePos, chunks, mainVars, parseVars>>

(* lines 172-173 with pOut set back to pOutputBuffer for every chunk *)
ReadRewinding ==
    /\ pc = "read"
    /\ \E size \in ChunkSizes :
          LET left == Len(inputFile) - filePos
              n == IF size < left THEN size ELSE left
          IN /\ bytesRead' = n
             /\ inputBuffer' = IF n > 0 THEN SubSeq(inputFile, filePos + 1, filePos + n)
                               ELSE inputBuffer
             /\ filePos' = filePos + n
             /\ chunks' = IF n > 0 THEN chunks + 1 ELSE chunks
             /\ pIn' = IF n > 0 THEN 0 ELSE pIn
             /\ outputLine' = IF n > 0 THEN <<>> ELSE outputLine
             /\ pc' = IF n > 0 THEN "loop" ELSE "last"
    /\ UNCHANGED <<envVars, mainVars, outputFile, linesWritten, writeLine, addEscaped,
                   pOutputBuffer, pPrefix, heap, written>>

(* lines 172-173: fread() of one chunk; 0 ends the outer loop *)
Read ==
    /\ pc = "read"
    /\ \E size \in ChunkSizes :
          LET left == Len(inputFile) - filePos
              n == IF size < left THEN size ELSE left
          IN /\ bytesRead' = n
             /\ inputBuffer' = IF n > 0 THEN SubSeq(inputFile, filePos + 1, filePos + n)
                               ELSE inputBuffer
             /\ filePos' = filePos + n
             /\ chunks' = IF n > 0 THEN chunks + 1 ELSE chunks
             /\ pIn' = IF n > 0 THEN 0 ELSE pIn
             /\ pc' = IF n > 0 THEN "loop" ELSE "last"
    /\ UNCHANGED <<envVars, mainVars, outputFile, linesWritten, writeLine, addEscaped,
                   pOutputBuffer, outputLine, pPrefix, heap, written>>

Store(f) ==
    /\ outputLine' = f.outputLine
    /\ pIn' = f.pIn
    /\ addEscaped' = f.addEscaped
    /\ writeLine' = f.writeLine
    /\ pPrefix' = f.pPrefix
    /\ linesWritten' = f.linesWritten
    /\ outputFile' = f.outputFile
    /\ written' = f.written
    /\ heap' = f.heap

(* lines 175-231: one pass of the inner loop *)
Loop ==
    /\ pc = "loop"
    /\ pIn < bytesRead
    /\ LET f == LoopBody(Frame, inputBuffer[pIn + 1])
       IN /\ Store(f)
          /\ pc' = IF f.pIn < bytesRead THEN "loop" ELSE "read"
    /\ UNCHANGED <<envVars, filePos, chunks, mainVars, inputBuffer, bytesRead,
                   pOutputBuffer>>

(* lines 233-240: what is left in the line buffer *)
Last ==
    /\ pc = "last"
    /\ Store(LastLine(Frame))
    /\ pc' = "fixup"
    /\ UNCHANGED <<envVars, filePos, chunks, mainVars, inputBuffer, bytesRead,
                   pOutputBuffer>>

(* lines 241-248: seek back over the postfix and write the endfix *)
Fix ==
    /\ pc = "fixup"
    /\ Store(FixUp(Frame))
    /\ pc' = "tidy"
    /\ UNCHANGED <<envVars, filePos, chunks, mainVars, inputBuffer, bytesRead,
                   pOutputBuffer>>

(* lines 249-254 *)
Tidy ==
    /\ pc = "tidy"
    /\ Store(TidyUp(Frame))
    /\ pc' = "return"
    /\ UNCHANGED <<envVars, filePos, chunks, mainVars, inputBuffer, bytesRead,
                   pOutputBuffer>>

Next ==
    \/ Main
    \/ Allocate
    \/ Header
    \/ Read
    \/ Loop
    \/ Last
    \/ Fix
    \/ Tidy
    \/ Return
    \/ Exit

Spec == Init /\ [][Next]_vars

(* main() and parse() are one sequential program: it keeps running while a *)
(* statement is left to run                                                *)
FairSpec == Spec /\ WF_vars(Next)

-----------------------------------------------------------------------------
(* parse() on the whole input delivered by one fread() *)

(* the locals at line 171, after the header *)
StartFrame ==
    [outputLine |-> <<>>, pIn |-> 0, addEscaped |-> 0, writeLine |-> FALSE,
     pPrefix |-> "PTR", linesWritten |-> 0,
     outputFile |-> IF bare THEN <<>> ELSE HeaderText,
     written |-> <<>>,
     heap |-> [NoHeap EXCEPT !.requested = TRUE, !.outAlloc = TRUE, !.preAlloc = TRUE]]

(* lines 175-231: a pass of the inner loop over a chunk, if one is left *)
Pass(f, chunk) ==
    IF f.pIn < Len(chunk) THEN LoopBody(f, chunk[f.pIn + 1]) ELSE f

Pass4(f, chunk) == Pass(Pass(Pass(Pass(f, chunk), chunk), chunk), chunk)

Pass16(f, chunk) == Pass4(Pass4(Pass4(Pass4(f, chunk), chunk), chunk), chunk)

(* lines 175-231: the inner loop over a chunk *)
RECURSIVE RunLoop(_, _)
RunLoop(f, chunk) ==
    IF f.pIn < Len(chunk) THEN RunLoop(Pass16(f, chunk), chunk) ELSE f

(* lines 172-254 *)
OneChunkRun == TidyUp(FixUp(LastLine(RunLoop(StartFrame, inputFile))))

-----------------------------------------------------------------------------
(* Reading the output back *)

(* both buffers were allocated, so that the transcoding ran *)
Ran == heap.requested /\ heap.outAlloc /\ heap.preAlloc

Finished == pc = "done" /\ success /\ Ran

(* the characters of a written line between its opening and closing quote *)
Content(text) == SubSeq(text, prefixLength + 2, Len(text) - POSTFIX_LENGTH)

RECURSIVE Contents(_)
Contents(lines) ==
    IF lines = <<>> THEN <<>> ELSE Content(Head(lines).text) \o Contents(Tail(lines))

(* the escape table: <<byte, mnemonic>> *)
EscapeTable ==
    {<<7, 97>>, <<8, 98>>, <<27, 101>>, <<12, 102>>, <<10, 110>>, <<13, 114>>,
     <<9, 116>>, <<11, 118>>, <<92, 92>>, <<39, 39>>, <<34, 34>>, <<63, 63>>}

(* the byte of a mnemonic; -1 for a character that is no mnemonic *)
ByteOf(m) ==
    IF \E e \in EscapeTable : e[2] = m
    THEN (CHOOSE e \in EscapeTable : e[2] = m)[1]
    ELSE -1

(* backslash+mnemonic pairs replaced by their bytes *)
RECURSIVE Unescape(_)
Unescape(s) ==
    IF s = <<>> THEN <<>>
    ELSE IF Head(s) = 92
         THEN IF Len(s) = 1 THEN <<-1>>
              ELSE <<ByteOf(s[2])>> \o Unescape(SubSeq(s, 3, Len(s)))
         ELSE <<Head(s)>> \o Unescape(Tail(s))

Count(s, c) == Cardinality({i \in 1..Len(s) : s[i] = c})

EndsWith(s, t) == Len(s) >= Len(t) /\ SubSeq(s, Len(s) - Len(t) + 1, Len(s)) = t

Contains(s, t) == \E i \in 0..(Len(s) - Len(t)) : SubSeq(s, i + 1, i + Len(t)) = t

Max(a, b) == IF a > b THEN a ELSE b

-----------------------------------------------------------------------------
(* C1: round trip.  When a run has finished, the characters between the     *)
(* quotes of the written lines, concatenated in order and with every        *)
(* backslash+mnemonic pair replaced by the byte of the mnemonic, are        *)
(* exactly the bytes of the input.                                          *)
C1_RoundTrip ==
    Finished => Unescape(Contents(written)) = inputFile

(* a finished run of several lines whose input holds a backslash followed   *)
(* by 'n' and a newline                                                     *)
C1_Witness ==
    /\ Finished
    /\ Len(written) >= 2
    /\ \E i \in 1..(Len(inputFile) - 1) : inputFile[i] = 92 /\ inputFile[i + 1] = 110
    /\ \E i \in 1..Len(inputFile) : inputFile[i] = 10

(* C2: chunk-boundary invariance.  Whatever the sizes of the chunks read,   *)
(* the output file and the returned line count of a finished run are those  *)
(* of the run that reads the whole input as one chunk.                      *)
C2_ChunkInvariance ==
    Finished => /\ outputFile = OneChunkRun.outputFile
                /\ x = OneChunkRun.linesWritten

(* a finished run that read its input in three chunks or more, an escaped   *)
(* byte first in one of them, and wrote several lines                       *)
C2_Witness ==
    /\ Finished
    /\ chunks >= 3
    /\ Len(written) >= 2
    /\ \E i \in 2..Len(inputFile) : escapeRequired(inputFile[i])

(* C3: line-length bound.  Every line written by a flush, counted with its  *)
(* prefix or indent, quotes, content and newline, has at most lineLength    *)
(* characters.                                                              *)
C3_LineLengthBound ==
    \A i \in 1..Len(written) : Len(written[i].text) <= lineLength

(* a full line, a line forced early and a final line have been written *)
C3_Witness ==
    /\ \E i \in 1..Len(written) :
          ~written[i].forced /\ ~written[i].final /\ Len(written[i].text) = lineLength
    /\ \E i \in 1..Len(written) : written[i].forced
    /\ \E i \in 1..Len(written) : written[i].final

(* C4: final terminator.  For a non-empty input the finished output file   *)
(* ends with closing quote, semicolon, newline in bare mode, and with       *)
(* closing quote, semicolon, newline, blank line, "// End of file",         *)
(* newline otherwise.                                                       *)
C4_Terminator ==
    (Finished /\ inputFile # <<>>) =>
        EndsWith(outputFile, <<34>> \o EndfixFor(bare))

(* C5: empty input.  For an input of zero bytes the finished output file    *)
(* holds the declaration prefix followed by an opening quote, a closing     *)
(* quote and a semicolon, and the returned line count is 1.                 *)
C5_EmptyInput ==
    (Finished /\ inputFile = <<>>) =>
        /\ Contains(outputFile, PrefixText(pVariableName) \o <<34, 34, 59>>)
        /\ x = 1

(* C6 as stated: the opening quote is put in once in a whole run, so that   *)
(* no pass of the loop puts it in after a line has been written.            *)
C6_QuoteOncePerRun ==
    [][(/\ pc = "loop"
        /\ Len(outputLine) = prefixLength
        /\ outputLine' = Append(outputLine, 34)) => linesWritten = 0]_vars

(* C6 amended: the opening quote is put in once per line, at offset         *)
(* prefixLength of every written line; the first line holds the declaration *)
(* text before it and every later line holds prefixLength spaces; the       *)
(* prefix buffer is released by the first of these quotes only.             *)
C6_QuoteOncePerLine ==
    /\ \A i \in 1..Len(written) :
          /\ written[i].text[prefixLength + 1] = 34
          /\ SubSeq(written[i].text, 1, prefixLength) =
                IF i = 1 THEN PrefixText(pVariableName)
                ELSE [j \in 1..prefixLength |-> 32]
    /\ heap.preFrees <= 1
    /\ linesWritten >= 1 => heap.preFrees = 1

(* three lines written, the third beginning with spaces and a quote *)
C6_Witness ==
    /\ Len(written) >= 3
    /\ SubSeq(written[3].text, 1, prefixLength + 1) =
          [j \in 1..prefixLength |-> 32] \o <<34>>

(* the newline characters of the literal lines in the output file: all of   *)
(* them but the two of the header comment                                   *)
LiteralLines == Count(outputFile, 10) - (IF bare THEN 0 ELSE 2)

(* C7: line count.  While parse() reads and writes, linesWritten is the     *)
(* number of literal lines in the output file, one per line the flush       *)
(* paths wrote; the header comment is not counted, and neither is the       *)
(* endfix: the value returned is the number of lines the flush paths wrote. *)
(* The input 'A', newline, 'B' with line length 80 gives 1.                 *)
C7_LinesWritten ==
    /\ pc \in {"read", "loop", "last", "fixup"} =>
          /\ linesWritten = LiteralLines
          /\ linesWritten = Len(written)
    /\ Finished => x = Len(written)
    /\ (Finished /\ inputFile = ExampleInput /\ lineLength = LINE_LENGTH) => x = 1

(* the example has finished without -b and returned 1 *)
C7_Witness ==
    /\ Finished
    /\ inputFile = ExampleInput
    /\ ~bare
    /\ lineLength = LINE_LENGTH
    /\ x = 1

(* C8: minimum line length.  Once main() has checked it, lineLength is the  *)
(* larger of the requested value and 16 + L + 5, for L the length of the    *)
(* name; a line written because the line was full has exactly lineLength    *)
(* characters with its newline.                                             *)
C8_MinimumLength ==
    (success /\ pc # "main") =>
        /\ lineLength = Max(argv.l, 16 + Len(argv.name) + 5)
        /\ \A i \in 1..Len(written) :
              (~written[i].forced /\ ~written[i].final) =>
                  Len(written[i].text) = lineLength

(* a negative request was raised and a full line of the raised length has   *)
(* been written                                                             *)
C8_Witness ==
    /\ success
    /\ argv.l < 0
    /\ lineLength = 16 + Len(argv.name) + 5
    /\ \E i \in 1..Len(written) :
          ~written[i].forced /\ ~written[i].final /\ Len(written[i].text) = lineLength

(* C9: allocation failure.  A run in which malloc() failed for the line     *)
(* buffer or the prefix buffer does not end with exit code 0, and exit      *)
(* code 0 is returned only when the transcoding ran.                        *)
C9_AllocationFailure ==
    pc = "done" => /\ (heap.requested /\ ~Ran) => retValue # 0
                   /\ retValue = 0 => Ran

(* C10: buffer lifetime.  When parse() has returned, each buffer that was   *)
(* allocated has been released exactly once; no buffer is ever released     *)
(* twice or read after its release.                                         *)
C10_BufferLifetime ==
    /\ heap.outFrees <= 1
    /\ heap.preFrees <= 1
    /\ ~heap.staleRead
    /\ pc \in {"return", "exit", "done"} =>
          /\ heap.outAlloc => heap.outFrees = 1
          /\ heap.preAlloc => heap.preFrees = 1

-----------------------------------------------------------------------------
(* positions of parse() outside its inner loop, and after it *)
OutsideLoop == {"read", "last", "fixup", "tidy", "return", "exit", "done"}

(* the pending escape is idle outside the inner loop; while it is armed the *)
(* byte at pIn is the byte it was armed for, and once the backslash is out  *)
(* it is the last character of the line buffer                              *)
EscapeState ==
    /\ addEscaped \in {0, 1, 2}
    /\ pc \in OutsideLoop => addEscaped = 0
    /\ addEscaped > 0 =>
          /\ pc = "loop"
          /\ pIn < bytesRead
          /\ escapeRequired(inputBuffer[pIn + 1])
    /\ addEscaped = 1 => outputLine # <<>> /\ outputLine[Len(outputLine)] = 92

(* a step with the escape armed leaves the input pointer alone until the    *)
(* mnemonic of the byte at pIn is put after the backslash                   *)
EscapeStep ==
    /\ addEscaped = 2 => pIn' = pIn /\ addEscaped' \in {1, 2}
    /\ (addEscaped = 2 /\ addEscaped' = 1) => outputLine' = Append(outputLine, 92)
    /\ addEscaped = 1 =>
          /\ addEscaped' = 0
          /\ pIn' = pIn + 1
          /\ \/ outputLine' = Append(outputLine, escapedChar(inputBuffer[pIn + 1]))
             \/ /\ outputLine' = <<>>
                /\ written' # <<>>
                /\ written'[Len(written')].text =
                      Append(outputLine, escapedChar(inputBuffer[pIn + 1])) \o POSTFIX

(* C11: pending escape.  At most one escape is in flight (addEscaped is 0,  *)
(* 1 or 2, for the byte at pIn); it is idle whenever a chunk is read and    *)
(* when the input has ended; once armed, the backslash and then the         *)
(* mnemonic of that same byte are put out before the input pointer moves.   *)
C11_PendingEscape == []EscapeState /\ [][EscapeStep]_vars

(* a chunk ending in a byte that was escaped has been used up, with more    *)
(* input to read                                                            *)
C11_Witness ==
    /\ pc = "read"
    /\ 0 < filePos
    /\ filePos < Len(inputFile)
    /\ escapeRequired(inputFile[filePos])
    /\ addEscaped = 0

(* the texts of the written lines, one after the other *)
RECURSIVE Texts(_)
Texts(lines) ==
    IF lines = <<>> THEN <<>> ELSE Head(lines).text \o Texts(Tail(lines))

(* the header comment without the newline and the blank line after it *)
HeaderComment == SubSeq(HeaderText, 1, Len(HeaderText) - 2)

(* "// End of file" *)
EndOfFileComment == SubSeq(ENDFIX, 4, Len(ENDFIX) - 1)

(* C12: header ordering.  Nothing is in the output file before the header   *)
(* step; from then until the fix-up the file is the header comment (none    *)
(* with -b) followed by the lines written, so that the comment is there     *)
(* once, before any line, also for the empty input; it leaves linesWritten  *)
(* at 0.  With -b the finished file holds neither the header comment nor    *)
(* "// End of file"; without -b it begins with the header comment.          *)
C12_HeaderOrdering ==
    /\ pc \in {"main", "parse", "header"} => outputFile = <<>>
    /\ pc \in {"read", "loop", "last", "fixup"} =>
          outputFile = (IF bare THEN <<>> ELSE HeaderText) \o Texts(written)
    /\ (pc = "read" /\ chunks = 0) => linesWritten = 0 /\ outputLine = <<>>
    /\ (pc \in {"tidy", "return", "exit", "done"} /\ Ran) =>
          IF bare
          THEN /\ ~Contains(outputFile, HeaderComment)
               /\ ~Contains(outputFile, EndOfFileComment)
          ELSE /\ SubSeq(outputFile, 1, Len(HeaderComment)) = HeaderComment
               /\ ~Contains(Tail(outputFile), HeaderComment)

(* without -b and before the fix-up, the header is followed by two lines    *)
(* or more                                                                  *)
C12_Witness ==
    /\ pc = "fixup"
    /\ ~bare
    /\ Len(written) >= 2
    /\ SubSeq(outputFile, 1, Len(HeaderText)) = HeaderText

(* every backslash that begins a pair in s has its mnemonic after it in s *)
RECURSIVE PairsWhole(_)
PairsWhole(s) ==
    IF s = <<>> THEN TRUE
    ELSE IF Head(s) = 92
         THEN Len(s) >= 2 /\ ByteOf(s[2]) # -1 /\ PairsWhole(SubSeq(s, 3, Len(s)))
         ELSE PairsWhole(Tail(s))

(* the content of the line buffer after its opening quote *)
LineContent == SubSeq(outputLine, prefixLength + 2, Len(outputLine))

PairsKept ==
    /\ \A i \in 1..Len(written) :
          /\ PairsWhole(Content(written[i].text))
          /\ written[i].forced =>
                /\ Len(written[i].text) - POSTFIX_LENGTH > lineLength - POSTFIX_LENGTH - 2
                /\ i < Len(written) =>
                      /\ Len(Content(written[i + 1].text)) >= 2
                      /\ Content(written[i + 1].text)[1] = 92
    /\ (pc = "loop" /\ written # <<>> /\ written[Len(written)].forced) =>
          IF Len(outputLine) <= prefixLength + 1
          THEN addEscaped = 2
          ELSE LineContent[1] = 92

(* a pass that meets a byte to escape with the cursor beyond                *)
(* lineLength - POSTFIX_LENGTH - 2 writes the line as it is and leaves the  *)
(* escape armed                                                             *)
ForcedStep ==
    (/\ pc = "loop"
     /\ addEscaped = 0
     /\ Len(outputLine) > prefixLength
     /\ escapeRequired(inputBuffer[pIn + 1])
     /\ Len(outputLine) > lineLength - POSTFIX_LENGTH - 2) =>
        /\ written' = Append(written, [text |-> outputLine \o POSTFIX,
                                       forced |-> TRUE, final |-> FALSE])
        /\ outputLine' = <<>>
        /\ addEscaped' = 2
        /\ pIn' = pIn

(* C13: no split pair.  In every written line each backslash that begins a  *)
(* pair is followed by its mnemonic on the same line.  A byte to escape     *)
(* met with the cursor beyond lineLength - POSTFIX_LENGTH - 2 has the line  *)
(* written first, and the pair, still armed, is the first content of the    *)
(* next line.                                                               *)
C13_NoSplitPair == []PairsKept /\ [][ForcedStep]_vars

(* a line forced early is followed by a line whose content begins with the  *)
(* pair                                                                     *)
C13_Witness ==
    \E i \in 1..(Len(written) - 1) :
        /\ written[i].forced
        /\ Content(written[i + 1].text)[1] = 92
        /\ ByteOf(Content(written[i + 1].text)[2]) # -1

(* the input bytes the loop has not used up yet *)
Remaining ==
    (Len(inputFile) - filePos) + (IF pc = "loop" THEN bytesRead - pIn ELSE 0)

(* the passes still needed to reach the character after the opening quote *)
ToContent ==
    IF Len(outputLine) <= prefixLength THEN prefixLength + 1 - Len(outputLine) ELSE 0

(* a bound on the passes before the byte at pIn is used up: the prefix and  *)
(* quote of the line, the pass that arms the escape, the prefix and quote   *)
(* of one more line when that pass forces a flush, backslash and mnemonic   *)
PassesForByte ==
    IF addEscaped = 2 THEN ToContent + 2
    ELSE IF addEscaped = 1 THEN 1
    ELSE ToContent + 1 + (prefixLength + 1) + 2

Rank == Remaining * (2 * prefixLength + 6) + PassesForByte

(* C14: termination.  Every pass of the inner loop lowers Rank, a bound on  *)
(* the passes left that is never negative, so that the passes that use up   *)
(* no input (prefix, quote, backslash, forced flush) cannot repeat for      *)
(* ever; the fix-up is reached with every input byte used up, and the       *)
(* program ends.                                                            *)
C14_Termination ==
    /\ <>(pc = "done")
    /\ [][pc = "loop" => Rank' < Rank]_vars
    /\ [](Rank >= 0)
    /\ [](pc = "fixup" => filePos = Len(inputFile) /\ bytesRead = 0)

(* a run at the minimum line length has ended after a forced flush and      *)
(* three lines or more                                                      *)
C14_Witness ==
    /\ Finished
    /\ lineLength = prefixLength + 5
    /\ Len(written) >= 3
    /\ \E i \in 1..Len(written) : written[i].forced

(* the characters the escape table gives for the bytes s: backslash and    *)
(* mnemonic for a byte of the table, the byte itself otherwise              *)
RECURSIVE Escaped(_)
Escaped(s) ==
    IF s = <<>> THEN <<>>
    ELSE (IF \E e \in EscapeTable : e[1] = Head(s)
          THEN <<92, (CHOOSE e \in EscapeTable : e[1] = Head(s))[2]>>
          ELSE <<Head(s)>>) \o Escaped(Tail(s))

(* C15: escape table.  The content of the lines of a finished run is the    *)
(* input with each of the 12 bytes of the table put out as backslash and    *)
(* mnemonic and every other byte as itself; escapeRequired() holds of       *)
(* exactly the 12 bytes, for which escapedChar() gives the mnemonic.        *)
C15_EscapeTable ==
    /\ Finished => Contents(written) = Escaped(inputFile)
    /\ pc = "main" =>
          /\ Cardinality({c \in Byte : escapeRequired(c)}) = 12
          /\ \A c \in Byte :
                IF \E e \in EscapeTable : e[1] = c
                THEN /\ escapeRequired(c)
                     /\ <<c, escapedChar(c)>> \in EscapeTable
                ELSE ~escapeRequired(c) /\ escapedChar(c) = c

(* the run on the single byte 0x1B has finished with the content \e *)
C15_Witness ==
    /\ Finished
    /\ inputFile = <<27>>
    /\ Contents(written) = <<92, 101>>

(* the first prefixLength columns of a line: the declaration on the first  *)
(* line, spaces on a later one                                              *)
RegionOf(first) ==
    IF first THEN PrefixText(pVariableName) ELSE [j \in 1..prefixLength |-> 32]

Indent(text) == SubSeq(text, 1, IF Len(text) < prefixLength THEN Len(text) ELSE prefixLength)

PrefixRegion ==
    /\ \A i \in 1..Len(written) :
          /\ Indent(written[i].text) = RegionOf(i = 1)
          /\ i > 1 => ~Contains(written[i].text, PrefixText(pVariableName))
    /\ pc \in {"read", "loop"} =>
          /\ Indent(outputLine) = SubSeq(RegionOf(linesWritten = 0), 1, Len(Indent(outputLine)))
          /\ (linesWritten >= 1 /\ outputLine # <<>>) => pPrefix = "NULL"
          /\ pPrefix = "NULL" => heap.preFrees = 1

(* a pass with the cursor in the prefix region adds one character of it and *)
(* leaves the input where it is                                             *)
PrefixStep ==
    (pc = "loop" /\ Len(outputLine) < prefixLength) =>
        /\ outputLine' = Append(outputLine, RegionOf(pPrefix # "NULL")[Len(outputLine) + 1])
        /\ pIn' = pIn
        /\ filePos' = filePos
        /\ pc' = "loop"
        /\ written' = written

(* C16: prefix region.  The declaration text is in the first prefixLength   *)
(* columns of the first line and nowhere in a later line, whose first       *)
(* prefixLength columns are spaces, the prefix buffer being released by     *)
(* then; a pass that fills the prefix region uses up no input byte.         *)
C16_PrefixRegion == []PrefixRegion /\ [][PrefixStep]_vars

(* spaces are being put in the prefix region of a third line *)
C16_Witness ==
    /\ pc = "loop"
    /\ Len(written) = 2
    /\ pPrefix = "NULL"
    /\ Len(outputLine) = prefixLength - 1
    /\ outputLine = [j \in 1..(prefixLength - 1) |-> 32]

(* the output file before the fix-up: the header, then the written lines *)
BeforeFixUp == (IF bare THEN <<>> ELSE HeaderText) \o Texts(written)

(* the characters the fix-up may not touch: all but the postfix of the last *)
(* written line                                                             *)
KeptLength ==
    IF written = <<>> THEN Len(BeforeFixUp) ELSE Len(BeforeFixUp) - POSTFIX_LENGTH

(* C17: fix-up frame.  After the fix-up the output file is as before it up  *)
(* to the postfix of the last written line: only those two characters are   *)
(* written over, the endfix following; the header comment and the content   *)
(* of every line are unchanged, also for the empty input.                   *)
C17_FixUpFrame ==
    (pc \in {"tidy", "return", "exit", "done"} /\ Ran) =>
        /\ Len(outputFile) >= KeptLength
        /\ SubSeq(outputFile, 1, KeptLength) = SubSeq(BeforeFixUp, 1, KeptLength)

(* the cursor and the written lines, postfix included, stay within         *)
(* lineLength, one less than the capacity of the line buffer; the prefix    *)
(* text fits its buffer, and a read of it is at an index below prefixLength *)
(* and before the buffer is released                                        *)
BufferBounds ==
    /\ heap.requested => Len(outputLine) <= lineLength
    /\ \A i \in 1..Len(written) : Len(written[i].text) <= lineLength
    /\ heap.requested => Len(PrefixText(pVariableName)) = prefixLength
    /\ (pc = "loop" /\ Len(outputLine) < prefixLength /\ pPrefix # "NULL") =>
          /\ Len(outputLine) < Len(PrefixText(pVariableName))
          /\ heap.preFrees = 0
    /\ ~heap.staleRead

(* a pass of the loop that writes a line leaves the cursor at 0 *)
RewindStep ==
    (pc = "loop" /\ Len(written') > Len(written)) => outputLine' = <<>>

(* C18: line-buffer bounds.  In every state the cursor is between 0 and     *)
(* lineLength, also just after the postfix is added, so that no write goes  *)
(* past the lineLength + 1 characters of the buffer; it is 0 right after    *)
(* every flush in the loop; the prefix buffer is read below prefixLength    *)
(* and before its release.                                                  *)
C18_BufferBounds == []BufferBounds /\ [][RewindStep]_vars

(* a full line of lineLength characters has just been written in the loop   *)
(* and the cursor is 0                                                      *)
C18_Witness ==
    /\ pc \in {"loop", "read"}
    /\ outputLine = <<>>
    /\ written # <<>>
    /\ Len(written[Len(written)].text) = lineLength

(* every line written is the prefix region, the opening quote, one or more  *)
(* whole characters of content and the postfix; the line buffer at the     *)
(* final flush is empty or holds content after its quote                    *)
NoEmptyLine ==
    /\ \A i \in 1..Len(written) :
          /\ Len(written[i].text) >= prefixLength + 1 + 1 + POSTFIX_LENGTH
          /\ written[i].text[prefixLength + 1] = POSTFIX[1]
          /\ EndsWith(written[i].text, POSTFIX)
          /\ Len(Content(written[i].text)) >= 1
          /\ PairsWhole(Content(written[i].text))
    /\ pc = "last" => (outputLine = <<>> \/ Len(outputLine) > prefixLength + 1)

(* no line is written by the pass that follows the opening quote, nor by    *)
(* any pass before it                                                       *)
AfterQuoteStep ==
    (pc = "loop" /\ Len(outputLine) <= prefixLength + 1) => written' = written

(* C19: no empty literal line.  With the line length at least               *)
(* prefixLength + 5, every line a flush writes, in the loop, forced or      *)
(* final, has the content of one input byte or more between its quotes; a   *)
(* forced flush does not come directly after the opening quote and the      *)
(* final flush writes no line of prefix or indent and quotes only.          *)
C19_NoEmptyLine == []NoEmptyLine /\ [][AfterQuoteStep]_vars

(* at the shortest line length a run wrote a forced line and a final line *)
C19_Witness ==
    /\ Finished
    /\ lineLength = prefixLength + 5
    /\ \E i \in 1..Len(written) : written[i].forced
    /\ written[Len(written)].final

=============================================================================
